---- MODULE Spec2Model ----
(***************************************************************************)
(* eink-image (src/src/main.rs): the pixel pipeline                        *)
(*   grayscale -> gamma -> contrast -> threshold | Floyd-Steinberg         *)
(* and the command-line driver around it.                                  *)
(*                                                                         *)
(* The stages compute in f32.  An f32 value is modelled exactly, as the    *)
(* pair <<m, e>> standing for m * 2^e with m odd (zero is <<0, 0>>), and   *)
(* every arithmetic operator rounds its exact result to 24 significant     *)
(* bits, ties to even, as IEEE-754 binary32 does.  Infinities, NaN and     *)
(* subnormals are not represented: F32Normal states the range in which the *)
(* operators below are binary32, and the specifications keep inside it.    *)
(* The sign of zero is not represented either; no operation of the program *)
(* (no division by a computed zero, no sign test) can observe it.          *)
(***************************************************************************)
EXTENDS Integers, Sequences, FiniteSets, TLC

(***************************************************************************)
(* binary32 arithmetic                                                     *)
(***************************************************************************)

Pow2Table ==
  << 1, 2, 4, 8, 16, 32, 64, 128, 256, 512, 1024, 2048, 4096, 8192, 16384,
     32768, 65536, 131072, 262144, 524288, 1048576, 2097152, 4194304,
     8388608, 16777216, 33554432, 67108864, 134217728, 268435456,
     536870912, 1073741824 >>

Pow2(n) == Pow2Table[n + 1]

Abs(n) == IF n < 0 THEN -n ELSE n

Sgn(n) == IF n < 0 THEN -1 ELSE 1

RECURSIVE BitLen(_)
\* number of binary digits of n >= 0
BitLen(n) == IF n = 0 THEN 0 ELSE 1 + BitLen(n \div 2)

Mant(a) == a[1]

Expo(a) == a[2]

FZero == <<0, 0>>

RECURSIVE Reduce(_, _)
\* the canonical pair of m * 2^e: m odd, or zero
Reduce(m, e) ==
  IF m = 0 THEN FZero
  ELSE IF m % 2 = 0 THEN Reduce(m \div 2, e + 1)
  ELSE <<m, e>>

\* significand width of binary32 (23 stored bits and the implicit one)
MantBits == 24

\* round (M + f) * 2^E to MantBits significant bits, ties to even, where
\* 0 <= M < 2^30, 0 <= f < 1 and sticky says f > 0; sticky is only passed
\* with M >= 2^MantBits
RoundRNE(sign, M, E, sticky) ==
  LET bl == BitLen(M) IN
  IF bl <= MantBits THEN Reduce(sign * M, E)
  ELSE LET drop == bl - MantBits
           q    == M \div Pow2(drop)
           r    == M % Pow2(drop)
           half == Pow2(drop - 1)
           up   == \/ r > half
                   \/ r = half /\ sticky
                   \/ r = half /\ ~sticky /\ q % 2 = 1
       IN Reduce(sign * (IF up THEN q + 1 ELSE q), E + drop)

\* |m| shifted left to exactly `bits` binary digits, with its exponent
Normalize(a, bits) ==
  LET sh == bits - BitLen(Abs(Mant(a))) IN
  <<Abs(Mant(a)) * Pow2(sh), Expo(a) - sh>>

FromInt(n) == Reduce(n, 0)

FNeg(a) == <<-Mant(a), Expo(a)>>

\* a + b
FAdd(a, b) ==
  IF Mant(a) = 0 THEN b
  ELSE IF Mant(b) = 0 THEN a
  ELSE
    LET A  == Normalize(a, 27)
        B  == Normalize(b, 27)
        aBig == \/ A[2] > B[2]
                \/ A[2] = B[2] /\ A[1] >= B[1]
        X  == IF aBig THEN A ELSE B
        Y  == IF aBig THEN B ELSE A
        sx == IF aBig THEN Sgn(Mant(a)) ELSE Sgn(Mant(b))
        sy == IF aBig THEN Sgn(Mant(b)) ELSE Sgn(Mant(a))
        sh == X[2] - Y[2]
        Ys == IF sh >= 28 THEN 0 ELSE Y[1] \div Pow2(sh)
        sticky == IF sh >= 28 THEN TRUE ELSE Y[1] % Pow2(sh) # 0
    IN IF sx = sy
       THEN RoundRNE(sx, X[1] + Ys, X[2], sticky)
       ELSE RoundRNE(sx, X[1] - Ys - (IF sticky THEN 1 ELSE 0), X[2], sticky)

FSub(a, b) == FAdd(a, FNeg(b))

\* a < b
FLt(a, b) == Mant(FSub(a, b)) < 0

\* a * b: the 48-bit product of the two 24-bit significands in 12-bit limbs
FMul(a, b) ==
  IF Mant(a) = 0 \/ Mant(b) = 0 THEN FZero
  ELSE
    LET A  == Normalize(a, 24)
        B  == Normalize(b, 24)
        a1 == A[1] \div 4096
        a0 == A[1] % 4096
        b1 == B[1] \div 4096
        b0 == B[1] % 4096
        mid == a1 * b0 + a0 * b1
        low == a0 * b0 + (mid % 4096) * 4096
        hi  == a1 * b1 + mid \div 4096 + low \div 16777216
        lo  == low % 16777216
    IN RoundRNE(Sgn(Mant(a)) * Sgn(Mant(b)),
                hi * 4 + lo \div 4194304,
                A[2] + B[2] + 22,
                lo % 4194304 # 0)

RECURSIVE DivBits(_, _, _, _)
\* n more quotient bits of r / B by long division: <<quotient, remainder>>
DivBits(r, B, q, n) ==
  IF n = 0 THEN <<q, r>>
  ELSE IF 2 * r >= B THEN DivBits(2 * r - B, B, 2 * q + 1, n - 1)
  ELSE DivBits(2 * r, B, 2 * q, n - 1)

\* a / b, b # 0
FDiv(a, b) ==
  IF Mant(a) = 0 THEN FZero
  ELSE
    LET A  == Normalize(a, 24)
        B  == Normalize(b, 24)
        qr == DivBits(A[1] % B[1], B[1], A[1] \div B[1], 26)
    IN RoundRNE(Sgn(Mant(a)) * Sgn(Mant(b)), qr[1], A[2] - B[2] - 26, qr[2] # 0)

\* f32::clamp(0.0, 1.0)
FClamp01(a) ==
  IF Mant(a) < 0 THEN FZero
  ELSE IF FLt(FromInt(1), a) THEN FromInt(1)
  ELSE a

\* the greatest u8
U8Max == 255

\* `as u8`: toward zero, saturating
AsU8(a) ==
  IF Mant(a) <= 0 THEN 0
  ELSE IF BitLen(Mant(a)) + Expo(a) > 8 THEN U8Max
  ELSE IF Expo(a) >= 0 THEN Mant(a) * Pow2(Expo(a))
  ELSE IF -Expo(a) > 30 THEN 0
  ELSE Mant(a) \div Pow2(-Expo(a))

\* f32::round: to the nearest integer, halves away from zero (a >= 0 here)
FRound(a) ==
  IF Expo(a) >= 0 THEN a
  ELSE IF -Expo(a) > 25 THEN FZero
  ELSE Reduce(Sgn(Mant(a)) * ((Abs(Mant(a)) + Pow2(-Expo(a) - 1)) \div Pow2(-Expo(a))), 0)

\* the finite normal range of binary32, where the operators above are exact
F32Normal(a) ==
  \/ a = FZero
  \/ /\ Abs(Mant(a)) < Pow2(MantBits)
     /\ Expo(a) + BitLen(Abs(Mant(a))) - 1 >= -126
     /\ Expo(a) + BitLen(Abs(Mant(a))) - 1 <= 127

(***************************************************************************)
(* ImageBuffer<Luma<u8>, Vec<u8>>: width, height and the row-major samples *)
(***************************************************************************)

\* ImageBuffer::new(width, height): every sample zero
ImageBufferNew(width, height) ==
  [width |-> width, height |-> height, px |-> [i \in 1..(width * height) |-> 0]]

\* the place of (x, y) in the sample vector
PixelIndex(buf, x, y) == y * buf.width + x + 1

get_pixel(buf, x, y) == buf.px[PixelIndex(buf, x, y)]

put_pixel(buf, x, y, v) == [buf EXCEPT !.px[PixelIndex(buf, x, y)] = v]

\* enumerate_pixels: every (x, y) of the buffer, row by row
enumerate_pixels(buf) ==
  [i \in 1..(buf.width * buf.height) |-> <<(i - 1) % buf.width, (i - 1) \div buf.width>>]

RECURSIVE PutAll(_, _, _, _)
\* result after result.put_pixel(x, y, values[i]) for every (x, y) = cells[i]
PutAll(result, cells, values, i) ==
  IF i > Len(cells) THEN result
  ELSE PutAll(put_pixel(result, cells[i][1], cells[i][2], values[i]), cells, values, i + 1)

\* result after `for (x, y, pixel) in img.enumerate_pixels()
\*                 { result.put_pixel(x, y, Luma([lut[pixel[0]]])) }`,
\* lut[s + 1] being the value the loop body computes from the sample s
MapInto(result, img, lut) ==
  LET cells  == enumerate_pixels(img)
      values == [i \in 1..Len(cells) |->
                   lut[get_pixel(img, cells[i][1], cells[i][2]) + 1]]
  IN PutAll(result, cells, values, 1)

(***************************************************************************)
(* enhance_contrast                                                        *)
(***************************************************************************)

F255 == FromInt(U8Max)

FHalf == <<1, -1>>

\* one sample through the contrast formula
ContrastSample(s, contrast_level) ==
  LET luminance == FDiv(FromInt(s), F255)
      enhanced  == FClamp01(FAdd(FMul(FSub(luminance, FHalf), contrast_level), FHalf))
  IN AsU8(FMul(enhanced, F255))

\* the variant that allocates the result as height x width
enhance_contrast_transposed(img, contrast_level) ==
  LET F(s) == ContrastSample(s, contrast_level) IN
  [width |-> img.height, height |-> img.width,
   px |-> [i \in 1..(img.width * img.height) |-> F(img.px[i])]]

enhance_contrast(img, contrast_level) ==
  LET lut == [i \in 1..(U8Max + 1) |-> LET s == i - 1 IN ContrastSample(s, contrast_level)] IN
  MapInto(ImageBufferNew(img.width, img.height), img, lut)

(***************************************************************************)
(* apply_gamma_correction                                                  *)
(***************************************************************************)

\* round(255 * powf(i / 255, 1 / 2.2)) for i = 0..255.  powf is the C
\* library's; each 255 * (i/255)^(1/2.2) lies more than 0.006 from the
\* nearest half-integer, so every powf accurate to a few ulps rounds to
\* these values.
GammaTable22 ==
  <<
     0, 21, 28, 34, 39, 43, 46, 50, 53, 56, 59, 61, 64, 66, 68, 70,
     72, 74, 76, 78, 80, 82, 84, 85, 87, 89, 90, 92, 93, 95, 96, 98,
     99, 101, 102, 103, 105, 106, 107, 109, 110, 111, 112, 114, 115, 116, 117, 118,
     119, 120, 122, 123, 124, 125, 126, 127, 128, 129, 130, 131, 132, 133, 134, 135,
     136, 137, 138, 139, 140, 141, 142, 143, 144, 144, 145, 146, 147, 148, 149, 150,
     151, 151, 152, 153, 154, 155, 156, 156, 157, 158, 159, 160, 160, 161, 162, 163,
     164, 164, 165, 166, 167, 167, 168, 169, 170, 170, 171, 172, 173, 173, 174, 175,
     175, 176, 177, 178, 178, 179, 180, 180, 181, 182, 182, 183, 184, 184, 185, 186,
     186, 187, 188, 188, 189, 190, 190, 191, 192, 192, 193, 194, 194, 195, 195, 196,
     197, 197, 198, 199, 199, 200, 200, 201, 202, 202, 203, 203, 204, 205, 205, 206,
     206, 207, 207, 208, 209, 209, 210, 210, 211, 212, 212, 213, 213, 214, 214, 215,
     215, 216, 217, 217, 218, 218, 219, 219, 220, 220, 221, 221, 222, 223, 223, 224,
     224, 225, 225, 226, 226, 227, 227, 228, 228, 229, 229, 230, 230, 231, 231, 232,
     232, 233, 233, 234, 234, 235, 235, 236, 236, 237, 237, 238, 238, 239, 239, 240,
     240, 241, 241, 242, 242, 243, 243, 244, 244, 245, 245, 246, 246, 247, 247, 248,
     248, 249, 249, 249, 250, 250, 251, 251, 252, 252, 253, 253, 254, 254, 255, 255
  >>

\* the f32 nearest 2.2
F2p2 == FDiv(FromInt(22), FromInt(10))

\* gamma_lut[i]; gamma is 1.0 (powf(x, 1.0) = x) or 2.2
GammaLutEntry(gamma, i) ==
  LET normalized == FDiv(FromInt(i), F255)
      exponent   == FDiv(FromInt(1), gamma)
  IN IF exponent = FromInt(1)
     THEN AsU8(FRound(FMul(normalized, F255)))
     ELSE GammaTable22[i + 1]

apply_gamma_correction(img, gamma) ==
  LET lut == [i \in 1..(U8Max + 1) |-> LET s == i - 1 IN GammaLutEntry(gamma, s)] IN
  MapInto(ImageBufferNew(img.width, img.height), img, lut)

(***************************************************************************)
(* apply_simple_threshold                                                  *)
(***************************************************************************)

\* the variant with a strict comparison
ThresholdSampleStrict(s, threshold) == IF s > threshold THEN U8Max ELSE 0

ThresholdSample(s, threshold) == IF s >= threshold THEN U8Max ELSE 0

apply_simple_threshold(img, threshold) ==
  LET lut == [i \in 1..(U8Max + 1) |-> LET s == i - 1 IN ThresholdSample(s, threshold)] IN
  MapInto(ImageBufferNew(img.width, img.height), img, lut)

(***************************************************************************)
(* apply_floyd_steinberg_dithering                                         *)
(***************************************************************************)

\* the variant that starts from an empty buffer instead of a copy
CloneBlank(img) == ImageBufferNew(img.width, img.height)

\* img.clone()
Clone(img) == img

\* vec![vec![0.0; width]; height]
ErrorBufferNew(width, height) == [yy \in 1..height |-> [xx \in 1..width |-> FZero]]

\* the variant that writes 1 for white
BinarizeOne(old_value, threshold) ==
  IF FLt(old_value, FromInt(threshold)) THEN 0 ELSE 1

\* new_value
Binarize(old_value, threshold) ==
  IF FLt(old_value, FromInt(threshold)) THEN 0 ELSE U8Max

\* the variant that forgets the diffusion amount
LocalErrorUnscaled(old_value, new_value, diffusion_amount) ==
  FSub(old_value, FromInt(new_value))

\* error
LocalError(old_value, new_value, diffusion_amount) ==
  FMul(FSub(old_value, FromInt(new_value)), diffusion_amount)

\* error * k / 16.0
Share(error, k) == FDiv(FMul(error, FromInt(k)), FromInt(16))

\* the variant that clamps an out-of-range target to the edge
DiffusionClamped(x, y, width, height, error) ==
  LET cx(v) == IF v < 0 THEN 0 ELSE IF v >= width THEN width - 1 ELSE v
      cy(v) == IF v >= height THEN height - 1 ELSE v
  IN << <<cx(x + 1), y, Share(error, 7)>>,
        <<cx(x - 1), cy(y + 1), Share(error, 3)>>,
        <<x, cy(y + 1), Share(error, 5)>>,
        <<cx(x + 1), cy(y + 1), Share(error, 1)>> >>

\* the variant that sends the 3/16 share to the south-east and none to the
\* south-west
DiffusionNoSouthWest(x, y, width, height, error) ==
  (IF x + 1 < width THEN << <<x + 1, y, Share(error, 7)>> >> ELSE << >>)
  \o (IF y + 1 < height
      THEN << <<x, y + 1, Share(error, 5)>> >>
           \o (IF x + 1 < width
               THEN << <<x + 1, y + 1, Share(error, 3)>>,
                       <<x + 1, y + 1, Share(error, 1)>> >>
               ELSE << >>)
      ELSE << >>)

\* the additions one visit makes to the error buffer, in program order:
\* <<target x, target y, addend>>
Diffusion(x, y, width, height, error) ==
  (IF x + 1 < width THEN << <<x + 1, y, Share(error, 7)>> >> ELSE << >>)
  \o (IF y + 1 < height
      THEN (IF x > 0 THEN << <<x - 1, y + 1, Share(error, 3)>> >> ELSE << >>)
           \o << <<x, y + 1, Share(error, 5)>> >>
           \o (IF x + 1 < width THEN << <<x + 1, y + 1, Share(error, 1)>> >> ELSE << >>)
      ELSE << >>)

RECURSIVE AddAll(_, _, _)
\* error_buffer after the additions adds[i..]
AddAll(eb, adds, i) ==
  IF i > Len(adds) THEN eb
  ELSE AddAll([eb EXCEPT ![adds[i][2] + 1][adds[i][1] + 1] = FAdd(@, adds[i][3])],
              adds, i + 1)

\* one pass of the loop body at (x, y) on the working state
\* st = [result, error_buffer]
VisitCell(st, x, y, diffusion_amount, threshold) ==
  LET pixel     == get_pixel(st.result, x, y)
      old_value == FAdd(FromInt(pixel), st.error_buffer[y + 1][x + 1])
      new_value == Binarize(old_value, threshold)
      error     == LocalError(old_value, new_value, diffusion_amount)
      adds      == Diffusion(x, y, st.result.width, st.result.height, error)
  IN [result       |-> put_pixel(st.result, x, y, new_value),
      error_buffer |-> AddAll(st.error_buffer, adds, 1),
      pixel        |-> pixel,
      old_value    |-> old_value,
      error        |-> error,
      adds         |-> adds]

\* the variant that walks each column top to bottom
NextCellColumnMajor(x, y, width, height) ==
  IF y + 1 < height THEN <<x, y + 1>>
  ELSE IF x + 1 < width THEN <<x + 1, 0>>
  ELSE <<0, height>>

\* the cell the two nested loops reach after (x, y); <<0, height>> when
\* both are exhausted
NextCell(x, y, width, height) ==
  IF x + 1 < width THEN <<x + 1, y>>
  ELSE IF y + 1 < height THEN <<0, y + 1>>
  ELSE <<0, height>>

\* the first cell of the loops; <<0, height>> when there is none
FirstCell(width, height) ==
  IF width = 0 \/ height = 0 THEN <<0, height>> ELSE <<0, 0>>

RECURSIVE Sweep(_, _, _, _)
\* the loops from cell c on
Sweep(st, c, diffusion_amount, threshold) ==
  IF c[2] >= st.result.height THEN st
  ELSE LET v == VisitCell(st, c[1], c[2], diffusion_amount, threshold) IN
       Sweep([result |-> v.result, error_buffer |-> v.error_buffer],
             NextCell(c[1], c[2], st.result.width, st.result.height),
             diffusion_amount, threshold)

\* the loops run on a given initial content of result
SweepFrom(initial, diffusion_amount, threshold) ==
  Sweep([result |-> initial,
         error_buffer |-> ErrorBufferNew(initial.width, initial.height)],
        FirstCell(initial.width, initial.height), diffusion_amount, threshold).result

apply_floyd_steinberg_dithering(img, diffusion_amount, threshold) ==
  SweepFrom(Clone(img), diffusion_amount, threshold)

(***************************************************************************)
(* main: the command line                                                  *)
(***************************************************************************)

\* An argument's text is the sequence of its characters.
DigitValue(c) ==
  CASE c = "0" -> 0 [] c = "1" -> 1 [] c = "2" -> 2 [] c = "3" -> 3 [] c = "4" -> 4
    [] c = "5" -> 5 [] c = "6" -> 6 [] c = "7" -> 7 [] c = "8" -> 8 [] c = "9" -> 9

IsDigit(c) == c \in {"0", "1", "2", "3", "4", "5", "6", "7", "8", "9"}

RECURSIVE DecimalValue(_, _, _)
\* the number written by the digits text[i..]
DecimalValue(text, i, acc) ==
  IF i > Len(text) THEN acc
  ELSE DecimalValue(text, i + 1, 10 * acc + DigitValue(text[i]))

RECURSIVE Pow10(_)
Pow10(n) == IF n = 0 THEN 1 ELSE 10 * Pow10(n - 1)

ParseError == [ok |-> FALSE]

\* str::parse::<f32> on a plain decimal ([+-] digits [. digits], at most
\* seven digits): the f32 nearest the number written.  Both the digits and
\* the power of ten are exact in f32, so one correctly rounded division is
\* that nearest value.  Any other text of the model is not a number.
ParseF32(text) ==
  LET signed == Len(text) > 0 /\ text[1] \in {"+", "-"}
      body   == IF signed THEN Tail(text) ELSE text
      dots   == {i \in 1..Len(body) : body[i] = "."}
      digits == SelectSeq(body, IsDigit)
      frac   == IF dots = {} THEN 0 ELSE Len(body) - (CHOOSE i \in dots : TRUE)
      n      == DecimalValue(digits, 1, 0)
  IN IF /\ Len(digits) > 0
        /\ Cardinality(dots) <= 1
        /\ Len(digits) + Cardinality(dots) = Len(body)
     THEN [ok |-> TRUE,
           val |-> FDiv(FromInt(IF signed /\ text[1] = "-" THEN -n ELSE n),
                        FromInt(Pow10(frac)))]
     ELSE ParseError

\* str::parse::<u8>: [+] digits, no greater than 255
ParseU8(text) ==
  LET body == IF Len(text) > 0 /\ text[1] = "+" THEN Tail(text) ELSE text IN
  IF /\ Len(body) > 0
     /\ \A i \in 1..Len(body) : IsDigit(body[i])
     /\ DecimalValue(body, 1, 0) <= U8Max
  THEN [ok |-> TRUE, val |-> DecimalValue(body, 1, 0)]
  ELSE ParseError

\* Result::unwrap_or
UnwrapOr(parsed, default) == IF parsed.ok THEN parsed.val ELSE default

\* the f32 literals 1.3, 0.8 and 2.2, and the threshold 128
DefaultContrast == FDiv(FromInt(13), FromInt(10))

DefaultDiffusion == FDiv(FromInt(8), FromInt(10))

DefaultGamma == F2p2

DefaultThreshold == 128

\* the variant that announces success whatever process_image returned
ReportSuccessAlways(returned) ==
  [message |-> "Image processed successfully!", stdout |-> "Output saved to", stderr |-> "",
   exit_status |-> 0]

\* main's match on what process_image returned; main then returns, so the
\* process exits with status 0 either way
Report(returned) ==
  IF returned.ok
  THEN [message |-> "Image processed successfully!", stdout |-> "Output saved to", stderr |-> "",
   exit_status |-> 0]
  ELSE [message |-> "Processing failed", stdout |-> "", stderr |-> returned.err,
        exit_status |-> 0]

(***************************************************************************)
(* State                                                                   *)
(***************************************************************************)

None == "none"

VARIABLES
  pc,                   \* where the program is
  args,                 \* main: the argument texts, the input file, the output path
  contrast_level, enable_dither, diffusion_amount, gamma, threshold,
  grayscale_img, gamma_corrected_img, enhanced_img, final_img,
  returned,             \* what process_image returned
  outcome,              \* what main reported
  img, result,          \* a stage's argument and its result buffer
  error_buffer, x, y,   \* apply_floyd_steinberg_dithering's locals
  thresholded,          \* apply_simple_threshold's result on the same img
  \* observations of the sweep
  visits,               \* the cells whose loop body has run, in order
  pixel,                \* the sample the last body read from result
  error,                \* the last body's error
  adds,                 \* the last body's additions to error_buffer
  contrib,              \* per cell: <<source x, source y, addend>> of every addition made to it
  read_initial          \* the cells whose initial content of result was read

params == <<contrast_level, enable_dither, diffusion_amount, gamma, threshold>>

stages == <<grayscale_img, gamma_corrected_img, enhanced_img, final_img>>

locals == <<result, error_buffer, x, y>>

observed == <<visits, pixel, error, adds, contrib, read_initial>>

vars == <<pc, args, params, stages, returned, outcome, img, locals, thresholded, observed>>

(***************************************************************************)
(* Inputs                                                                  *)
(***************************************************************************)

\* bounds on the buffers explored
MaxW == 3

MaxH == 2

MaxCells == 6

PixelVals == {101, 200}

Images ==
  UNION { { [width |-> w, height |-> h, px |-> p] : p \in [1..(w * h) -> PixelVals] }
          : <<w, h>> \in { d \in (0..MaxW) \X (0..MaxH) : d[1] * d[2] <= MaxCells } }

Thresholds == {0, 128, 200}

DiffusionAmounts == {FZero, DefaultDiffusion, FromInt(2), FNeg(FHalf)}

ContrastLevels == {FromInt(1), FZero, DefaultContrast, FromInt(2)}

\* what is at input_path: a decodable image, or nothing image::open can read
InputFiles == { [readable |-> TRUE, image |-> i] : i \in Images } \cup { [readable |-> FALSE] }

ContrastTexts == { <<"1", ".", "0">>, <<"h", "i", "g", "h">> }

DiffusionTexts == { <<"0", ".", "5">>, <<"1", ",", "0">> }

GammaTexts == { <<"1", ".", "0">>, << >> }

ThresholdTexts == { <<"6", "4">>, <<"3", "0", "0">> }

(***************************************************************************)
(* The sweep of apply_floyd_steinberg_dithering, one loop body at a time,  *)
(* followed by apply_simple_threshold on the same argument                 *)
(***************************************************************************)

InitSweep ==
  /\ pc = "call"
  /\ img \in Images
  /\ threshold \in Thresholds
  /\ diffusion_amount \in DiffusionAmounts
  /\ args = None /\ contrast_level = None /\ enable_dither = None /\ gamma = None
  /\ grayscale_img = None /\ gamma_corrected_img = None /\ enhanced_img = None
  /\ final_img = None /\ returned = None /\ outcome = None
  /\ result = None /\ error_buffer = None /\ x = None /\ y = None
  /\ thresholded = None
  /\ visits = << >> /\ pixel = None /\ error = None /\ adds = << >>
  /\ contrib = None /\ read_initial = {}

\* lines 233-235, and the loops' entry
FSBegin ==
  /\ pc = "call"
  /\ result' = Clone(img)
  /\ error_buffer' = ErrorBufferNew(img.width, img.height)
  /\ x' = FirstCell(img.width, img.height)[1]
  /\ y' = FirstCell(img.width, img.height)[2]
  /\ contrib' = [i \in 1..(img.width * img.height) |-> {}]
  /\ pc' = "sweep"
  /\ UNCHANGED <<args, params, stages, returned, outcome, img, thresholded,
                 visits, pixel, error, adds, read_initial>>

\* lines 239-257 at (x, y), and the loops' step to the next cell
FSVisit ==
  /\ pc = "sweep"
  /\ y < result.height
  /\ \E v \in { VisitCell([result |-> result, error_buffer |-> error_buffer],
                            x, y, diffusion_amount, threshold) },
        next \in { NextCell(x, y, result.width, result.height) } :
        /\ result' = v.result
        /\ error_buffer' = v.error_buffer
        /\ x' = next[1]
        /\ y' = next[2]
        /\ visits' = Append(visits, <<x, y>>)
        /\ pixel' = v.pixel
        /\ error' = v.error
        /\ adds' = v.adds
        /\ contrib' =
             [i \in DOMAIN contrib |->
                contrib[i] \cup { <<x, y, v.adds[k][3]>> :
                                  k \in { j \in 1..Len(v.adds) :
                                          PixelIndex(result, v.adds[j][1], v.adds[j][2]) = i } }]
        /\ read_initial' =
             IF \E k \in 1..Len(visits) : visits[k] = <<x, y>>
             THEN read_initial
             ELSE read_initial \cup { <<x, y>> }
  /\ UNCHANGED <<pc, args, params, stages, returned, outcome, img, thresholded>>

\* line 261
FSReturn ==
  /\ pc = "sweep"
  /\ y >= result.height
  /\ pc' = "returned"
  /\ UNCHANGED <<args, params, stages, returned, outcome, img, locals, thresholded, observed>>

\* apply_simple_threshold(img, threshold)
ThresholdCall ==
  /\ pc = "returned"
  /\ thresholded' = apply_simple_threshold(img, threshold)
  /\ pc' = "compared"
  /\ UNCHANGED <<args, params, stages, returned, outcome, img, locals, observed>>

NextSweep == FSBegin \/ FSVisit \/ FSReturn \/ ThresholdCall

SpecSweep == InitSweep /\ [][NextSweep]_vars

(***************************************************************************)
(* One stage on a two-sample buffer, over every sample value               *)
(***************************************************************************)

\* the buffer holding s at place `at` and o at the other place
Pair(s, o, at) ==
  [width |-> 2, height |-> 1, px |-> IF at = 1 THEN <<s, o>> ELSE <<o, s>>]

InitSample ==
  /\ \E s \in 0..U8Max, o \in {0, U8Max}, at \in {1, 2} : img = Pair(s, o, at)
  /\ \/ pc = "call threshold" /\ threshold \in 0..U8Max /\ contrast_level = None
     \/ pc = "call contrast" /\ threshold = None /\ contrast_level \in ContrastLevels
  /\ args = None /\ enable_dither = None /\ diffusion_amount = None /\ gamma = None
  /\ grayscale_img = None /\ gamma_corrected_img = None /\ enhanced_img = None
  /\ final_img = None /\ returned = None /\ outcome = None
  /\ result = None /\ error_buffer = None /\ x = None /\ y = None
  /\ thresholded = None
  /\ visits = << >> /\ pixel = None /\ error = None /\ adds = << >>
  /\ contrib = None /\ read_initial = {}

SampleThreshold ==
  /\ pc = "call threshold"
  /\ result' = apply_simple_threshold(img, threshold)
  /\ pc' = "thresholded"
  /\ UNCHANGED <<args, params, stages, returned, outcome, img, error_buffer, x, y,
                 thresholded, observed>>

SampleContrast ==
  /\ pc = "call contrast"
  /\ result' = enhance_contrast(img, contrast_level)
  /\ pc' = "enhanced"
  /\ UNCHANGED <<args, params, stages, returned, outcome, img, error_buffer, x, y,
                 thresholded, observed>>

NextSample == SampleThreshold \/ SampleContrast

SpecSample == InitSample /\ [][NextSample]_vars

(***************************************************************************)
(* main and process_image                                                  *)
(***************************************************************************)

Init ==
  /\ pc = "main"
  /\ args \in [contrast : ContrastTexts, diffusion : DiffusionTexts, gamma : GammaTexts,
               threshold : ThresholdTexts, no_dither : BOOLEAN,
               input : InputFiles, output_writable : BOOLEAN]
  /\ contrast_level = None /\ enable_dither = None
  /\ diffusion_amount = None /\ gamma = None /\ threshold = None
  /\ grayscale_img = None /\ gamma_corrected_img = None /\ enhanced_img = None
  /\ final_img = None /\ returned = None /\ outcome = None
  /\ img = None /\ result = None /\ error_buffer = None /\ x = None /\ y = None
  /\ thresholded = None
  /\ visits = << >> /\ pixel = None /\ error = None /\ adds = << >>
  /\ contrib = None /\ read_initial = {}

\* lines 67-89
ParseArgs ==
  /\ pc = "main"
  /\ contrast_level' = UnwrapOr(ParseF32(args.contrast), DefaultContrast)
  /\ enable_dither' = ~args.no_dither
  /\ diffusion_amount' = UnwrapOr(ParseF32(args.diffusion), DefaultDiffusion)
  /\ gamma' = UnwrapOr(ParseF32(args.gamma), DefaultGamma)
  /\ threshold' = UnwrapOr(ParseU8(args.threshold), DefaultThreshold)
  /\ pc' = "open"
  /\ UNCHANGED <<args, stages, returned, outcome, img, locals, thresholded, observed>>

\* line 135: image::open(input_path)?
Open ==
  /\ pc = "open"
  /\ \/ /\ ~args.input.readable
        /\ returned' = [ok |-> FALSE, err |-> "cannot open the input"]
        /\ pc' = "report"
        /\ img' = img
     \/ /\ args.input.readable
        /\ img' = args.input.image
        /\ pc' = "grayscale"
        /\ returned' = returned
  /\ UNCHANGED <<args, params, stages, outcome, locals, thresholded, observed>>

\* line 139: to_luma8 of a decoded single-channel image
ConvertToGrayscale ==
  /\ pc = "grayscale"
  /\ grayscale_img' = img
  /\ pc' = "gamma"
  /\ UNCHANGED <<args, params, gamma_corrected_img, enhanced_img, final_img, returned,
                 outcome, img, locals, thresholded, observed>>

\* line 143
GammaCorrect ==
  /\ pc = "gamma"
  /\ gamma_corrected_img' = apply_gamma_correction(grayscale_img, gamma)
  /\ pc' = "contrast"
  /\ UNCHANGED <<args, params, grayscale_img, enhanced_img, final_img, returned,
                 outcome, img, locals, thresholded, observed>>

\* line 147
EnhanceContrast ==
  /\ pc = "contrast"
  /\ enhanced_img' = enhance_contrast(gamma_corrected_img, contrast_level)
  /\ pc' = "binarize"
  /\ UNCHANGED <<args, params, grayscale_img, gamma_corrected_img, final_img, returned,
                 outcome, img, locals, thresholded, observed>>

\* lines 155-159
BinarizeStage ==
  /\ pc = "binarize"
  /\ \/ /\ enable_dither
        /\ final_img' = apply_floyd_steinberg_dithering(enhanced_img, diffusion_amount,
                                                        threshold)
     \/ /\ ~enable_dither
        /\ final_img' = apply_simple_threshold(enhanced_img, threshold)
  /\ pc' = "save"
  /\ UNCHANGED <<args, params, grayscale_img, gamma_corrected_img, enhanced_img, returned,
                 outcome, img, locals, thresholded, observed>>

\* lines 163-166: final_img.save(output_path)?; Ok(())
Save ==
  /\ pc = "save"
  /\ returned' = IF args.output_writable
                 THEN [ok |-> TRUE]
                 ELSE [ok |-> FALSE, err |-> "cannot write the output"]
  /\ pc' = "report"
  /\ UNCHANGED <<args, params, stages, outcome, img, locals, thresholded, observed>>

\* lines 112-120
ReportResult ==
  /\ pc = "report"
  /\ outcome' = Report(returned)
  /\ pc' = "exit"
  /\ UNCHANGED <<args, params, stages, returned, img, locals, thresholded, observed>>

Next ==
  \/ ParseArgs
  \/ Open
  \/ ConvertToGrayscale
  \/ GammaCorrect
  \/ EnhanceContrast
  \/ BinarizeStage
  \/ Save
  \/ ReportResult

Spec == Init /\ [][Next]_vars

(***************************************************************************)
(* Properties                                                              *)
(***************************************************************************)

InSweep == pc \in {"sweep", "returned", "compared"}

SweepDone == pc \in {"returned", "compared"}

Visited == { visits[i] : i \in 1..Len(visits) }

CellsOf(buf) == (0..(buf.width - 1)) \X (0..(buf.height - 1))

InBounds(buf, c) == c \in CellsOf(buf)

BlackOrWhite(buf) == \A i \in 1..Len(buf.px) : buf.px[i] \in {0, U8Max}

\* every f32 of the sweep is a finite normal binary32 value or zero
SweepInRange ==
  InSweep =>
    /\ \A r \in 1..Len(error_buffer) : \A c \in 1..Len(error_buffer[r]) :
         F32Normal(error_buffer[r][c])
    /\ \A j \in 1..Len(adds) : F32Normal(adds[j][3])
    /\ Len(visits) > 0 => F32Normal(error)

\* C1: whatever the buffer, the threshold and the diffusion amount, every
\* sample apply_floyd_steinberg_dithering returns is 0 or 255 (as is every
\* sample it has written so far), and so is every sample
\* apply_simple_threshold returns.
C1_OutputBlackOrWhite ==
  /\ InSweep => \A c \in Visited : get_pixel(result, c[1], c[2]) \in {0, U8Max}
  /\ SweepDone => BlackOrWhite(result)
  /\ pc = "compared" => BlackOrWhite(thresholded)

C1_Witness ==
  /\ pc = "compared"
  /\ diffusion_amount = FromInt(2)
  /\ Len(result.px) = 6
  /\ \E i, j \in 1..6 : result.px[i] = 0 /\ result.px[j] = U8Max

SameShape(a, b) ==
  /\ a.width = b.width
  /\ a.height = b.height
  /\ Len(a.px) = b.width * b.height

\* the stages that have run, by the program's position
Ran(stage) ==
  \/ pc \in stage
  \/ pc \in {"report", "exit"} /\ args.input.readable

\* C2: every stage returns a buffer of its argument's width and height,
\* empty buffers included, so the buffer process_image saves has the shape
\* of the grayscale buffer.
C2_ShapePreserved ==
  /\ Ran({"contrast", "binarize", "save"}) => SameShape(gamma_corrected_img, grayscale_img)
  /\ Ran({"binarize", "save"}) => SameShape(enhanced_img, gamma_corrected_img)
  /\ Ran({"save"}) => SameShape(final_img, enhanced_img) /\ SameShape(final_img, grayscale_img)

C2_Witness ==
  /\ pc = "exit"
  /\ returned.ok
  /\ enable_dither
  /\ grayscale_img.width = 3
  /\ grayscale_img.height = 2
  /\ final_img.width = 3

\* C3: apply_simple_threshold maps a sample s to 255 when s >= t and to 0
\* when s < t, for every t and s in 0..255, whatever the sample's place and
\* whatever the other sample is.
C3_ThresholdPerSample ==
  pc = "thresholded" =>
    /\ SameShape(result, img)
    /\ \A i \in 1..Len(img.px) :
         result.px[i] = IF img.px[i] >= threshold THEN U8Max ELSE 0

C3_Witness ==
  /\ pc = "thresholded"
  /\ threshold = 0
  /\ img.px = <<U8Max, 0>>
  /\ result.px = <<U8Max, U8Max>>

\* C4: with diffusion amount 0.0 the error buffer stays all zero through the
\* sweep, every visited cell holds the threshold of its own input sample, and
\* the returned buffer is the one apply_simple_threshold returns.
C4_NoDiffusionIsThreshold ==
  (InSweep /\ diffusion_amount = FZero) =>
    /\ \A r \in 1..Len(error_buffer) : \A c \in 1..Len(error_buffer[r]) :
         error_buffer[r][c] = FZero
    /\ \A c \in Visited :
         get_pixel(result, c[1], c[2]) =
           IF get_pixel(img, c[1], c[2]) >= threshold THEN U8Max ELSE 0
    /\ pc = "compared" => result = thresholded

C4_Witness ==
  /\ pc = "compared"
  /\ diffusion_amount = FZero
  /\ Len(result.px) = 6
  /\ result = thresholded
  /\ \E i, j \in 1..6 : result.px[i] = 0 /\ result.px[j] = U8Max

\* C5: with contrast level 1.0 enhance_contrast returns every sample
\* unchanged.
C5_ContrastOneIsIdentity ==
  pc = "enhanced" => (contrast_level = FromInt(1) => result.px = img.px)

UnparseableArgument ==
  \/ ~ParseF32(args.contrast).ok
  \/ ~ParseF32(args.diffusion).ok
  \/ ~ParseF32(args.gamma).ok
  \/ ~ParseU8(args.threshold).ok

ReportedFailure ==
  /\ ~returned.ok
  /\ outcome.message = "Processing failed"
  /\ outcome.stderr # ""

ReportedSuccess ==
  /\ returned.ok
  /\ outcome.message = "Image processed successfully!"

\* C6 as claimed: a run with an unreadable input, an unwritable output or an
\* unparseable numeric argument ends in a reported failure.
C6_EveryBoundaryFailureFails ==
  (pc = "exit" /\ (~args.input.readable \/ ~args.output_writable \/ UnparseableArgument))
    => ReportedFailure

\* C6: a run with an unreadable input or an unwritable output ends in a
\* failure reported with a description, and with an unreadable input no
\* stage runs; an unparseable numeric argument is no failure: its default
\* (1.3, 0.8, 2.2, 128) takes its place, and the run succeeds whenever the
\* input is readable and the output writable.
C6_IoFailuresFailBadNumbersDefault ==
  /\ pc # "main" =>
       /\ ~ParseF32(args.contrast).ok => contrast_level = DefaultContrast
       /\ ~ParseF32(args.diffusion).ok => diffusion_amount = DefaultDiffusion
       /\ ~ParseF32(args.gamma).ok => gamma = DefaultGamma
       /\ ~ParseU8(args.threshold).ok => threshold = DefaultThreshold
  /\ pc = "exit" =>
       /\ (~args.input.readable \/ ~args.output_writable) => ReportedFailure
       /\ ~args.input.readable => grayscale_img = None /\ final_img = None
       /\ (args.input.readable /\ args.output_writable) => ReportedSuccess

C6_Witness ==
  /\ pc = "exit"
  /\ ~ParseU8(args.threshold).ok
  /\ ~ParseF32(args.contrast).ok
  /\ threshold = DefaultThreshold
  /\ ReportedSuccess
  /\ Len(final_img.px) > 0

\* the i-th cell of a width-wide buffer in row-major order
RowMajorCell(i, width) == <<(i - 1) % width, (i - 1) \div width>>

\* (x, y) before (x', y') top to bottom, left to right
Before(c, d) == c[2] < d[2] \/ (c[2] = d[2] /\ c[1] < d[1])

\* C7: the sweep visits the cells in row-major order, each once: the i-th
\* visit is the i-th cell, an earlier visit is of an earlier cell, the loops
\* stand at the next cell, and they end after width * height visits.
C7_RowMajorOnce ==
  InSweep =>
    /\ Len(visits) <= result.width * result.height
    /\ \A i \in 1..Len(visits) : visits[i] = RowMajorCell(i, result.width)
    /\ \A i, j \in 1..Len(visits) : i < j <=> Before(visits[i], visits[j])
    /\ (pc = "sweep" /\ y < result.height) =>
         <<x, y>> = RowMajorCell(Len(visits) + 1, result.width)
    /\ (pc = "sweep" /\ y >= result.height) => Len(visits) = result.width * result.height
    /\ SweepDone => /\ Len(visits) = result.width * result.height
                    /\ Visited = CellsOf(result)

C7_Witness ==
  /\ pc = "returned"
  /\ result.width = 3
  /\ result.height = 2
  /\ Len(visits) = 6

\* the kernel: <<dx, dy, sixteenths>>
Kernel == { <<1, 0, 7>>, <<-1, 1, 3>>, <<0, 1, 5>>, <<1, 1, 1>> }

LastVisit == visits[Len(visits)]

\* the kernel entries whose target lies in the buffer, for the last visit
KernelInBounds ==
  { k \in Kernel : InBounds(result, <<LastVisit[1] + k[1], LastVisit[2] + k[2]>>) }

\* an addend of the last visit in units of 2^(exponent of error - 4), the
\* unit in which error / 16 is the integer Mant(error)
InUnits(a) == Mant(a) * Pow2(Expo(a) - Expo(error) + 4)

RECURSIVE SumUnits(_)
\* the exact total of the addends adds[1..n], in those units
SumUnits(n) == IF n = 0 THEN 0 ELSE SumUnits(n - 1) + InUnits(adds[n][3])

\* the last visit's additions go to the in-bounds targets of the kernel, one
\* each, none of them visited yet
TargetsAsKernel ==
  /\ Len(adds) = Cardinality(KernelInBounds)
  /\ { <<adds[j][1], adds[j][2]>> : j \in 1..Len(adds) } =
       { <<LastVisit[1] + k[1], LastVisit[2] + k[2]>> : k \in KernelInBounds }
  /\ \A j \in 1..Len(adds) : <<adds[j][1], adds[j][2]>> \notin Visited

\* the addend sent along kernel entry k is error * k / 16 within f32 rounding
AddendRounded(k) ==
  \A j \in 1..Len(adds) :
    (adds[j][1] = LastVisit[1] + k[1] /\ adds[j][2] = LastVisit[2] + k[2]) =>
      IF error = FZero THEN adds[j][3] = FZero
      ELSE /\ Expo(adds[j][3]) - Expo(error) + 4 >= 0
           /\ Abs(InUnits(adds[j][3]) - k[3] * Mant(error))
                <= (k[3] * Abs(Mant(error))) \div Pow2(MantBits)

Interior == KernelInBounds = Kernel

LastColumn == LastVisit[1] + 1 = result.width

SourcesOf(i) == { <<t[1], t[2]>> : t \in contrib[i] }

NonZeroSourcesOf(i) == { <<t[1], t[2]>> : t \in { u \in contrib[i] : u[3] # FZero } }

West(c) == <<c[1] - 1, c[2]>>

NorthWest(c) == <<c[1] - 1, c[2] - 1>>

North(c) == <<c[1], c[2] - 1>>

NorthEast(c) == <<c[1] + 1, c[2] - 1>>

\* C9 as claimed: a cell receives from at most three cells, which are its
\* north, north-west and west neighbours.
C9_AtMostThreeSources ==
  InSweep =>
    \A i \in 1..Len(result.px) :
      LET c == RowMajorCell(i, result.width) IN
      /\ NonZeroSourcesOf(i) \subseteq {North(c), NorthWest(c), West(c)}
      /\ Cardinality(NonZeroSourcesOf(i)) <= 3

\* C9: the cells that add to a cell's error-buffer entry are its west,
\* north-west, north and north-east neighbours, as far as they lie in the
\* buffer: at most four, each adding once, all visited before it; by the time
\* the cell is visited every one of them has added, and no other cell ever
\* adds to it.
C9_FourEarlierSources ==
  InSweep =>
    \A i \in 1..Len(result.px) :
      LET c == RowMajorCell(i, result.width)
          neighbours == {West(c), NorthWest(c), North(c), NorthEast(c)} \cap CellsOf(result)
      IN /\ SourcesOf(i) \subseteq neighbours
         /\ SourcesOf(i) \subseteq Visited
         /\ \A d \in SourcesOf(i) : Before(d, c)
         /\ Cardinality(contrib[i]) = Cardinality(SourcesOf(i))
         /\ c \in Visited => SourcesOf(i) = neighbours

C9_Witness ==
  /\ InSweep
  /\ \E i \in 1..Len(result.px) :
       /\ RowMajorCell(i, result.width) \in Visited
       /\ Cardinality(NonZeroSourcesOf(i)) = 4
       /\ NorthEast(RowMajorCell(i, result.width)) \in NonZeroSourcesOf(i)

\* C10 as claimed: no initial content of the result buffer is ever read, and
\* the buffer returned is the one the sweep yields from any other initial
\* content.
C10_InitialContentIrrelevant ==
  /\ read_initial = {}
  /\ SweepDone => result = SweepFrom(CloneBlank(img), diffusion_amount, threshold)

\* C10: the sweep reads the initial content of the result buffer at every
\* cell, once, at the cell's visit and before writing it; until then the
\* cell holds the input sample, which is the sample read.  The result is
\* decided by that initial content, the copy of the input.
C10_InitialContentIsRead ==
  InSweep =>
    /\ read_initial = Visited
    /\ \A c \in CellsOf(result) \ Visited :
         get_pixel(result, c[1], c[2]) = get_pixel(img, c[1], c[2])
    /\ Len(visits) > 0 => pixel = get_pixel(img, LastVisit[1], LastVisit[2])

C10_Witness ==
  /\ SweepDone
  /\ Len(result.px) = 6
  /\ read_initial = CellsOf(result)
  /\ result # SweepFrom(CloneBlank(img), diffusion_amount, threshold)

====
